---------------------------- MODULE Spec2Model ----------------------------
(***************************************************************************)
(* Model of the goinvestigate / sgraph client library.                     *)
(*                                                                         *)
(*   - the batch fan-out engine (pGetParse / doPGetParse): a feeder, a     *)
(*     pool of worker goroutines, a supervisor and a consumer that ranges  *)
(*     over the returned channel;                                          *)
(*   - the retry loop of Request, in its two variants (the sgraph/generic  *)
(*     client retries on a transport error only, the typed client also on  *)
(*     a status >= 300).                                                   *)
(***************************************************************************)
EXTENDS Integers, Sequences, FiniteSets, Bags, TLC

(***************************************************************************)
(* Bounds of the model.                                                    *)
(***************************************************************************)
\* longest item list handed to a batch call
MaxItems == 2
\* largest value a caller passes to SetMaxGoroutines
MaxPool == 2

(***************************************************************************)
(* Program constants.                                                      *)
(***************************************************************************)
\* const maxTries = 5
maxTries == 5
\* var maxGoroutines int = 10
DefaultMaxGoroutines == 10

VARIABLES
    \* ---- batch engine ----
    maxGoroutines,  \* the package-level concurrency limit
    batch,          \* "idle" before pGetParse is called, "running" after
    subUris,        \* the URIs handed to pGetParse
    net,            \* per URI: how its GetParse ended, "pending" before
    fed,            \* feeder goroutine: number of URIs already enqueued
    inChan,         \* buffered work channel (contents)
    inClosed,       \* close(inChan) was executed
    workers,        \* bag of worker goroutine states
    done,           \* number of values buffered in the done channel
    doneCap,        \* capacity of the done channel
    supI,           \* supervisor goroutine: loop counter i
    outChan,        \* buffered output channel (contents)
    outClosed,      \* close(outChan) was executed
    supervisor,     \* "waiting" or "exited"
    consumer,       \* "ranging" or "finished": the caller's range loop
    received,       \* values the consumer took from outChan, in order
    \* ---- history of the batch (observations only) ----
    limitAtLaunch,  \* maxGoroutines when pGetParse was called
    fetches,        \* per URI: number of GetParse calls started
    signals,        \* number of sends on the done channel
    closes,         \* number of close(outChan) executed
    panicked,       \* a goroutine panicked (send on / close of closed channel)
    lastSet,        \* argument of the last SetMaxGoroutines call, -1 if none
    setBy,          \* the client that call was made on, "none" if none
    launchedBy,     \* the client the batch was launched on
    \* ---- Request ----
    variant,        \* which client's Request runs: "sgraph" or "typed"
    rpc,            \* "idle", "loop", "returned"
    tries,          \* loop counter of Request
    attempts,       \* results of client.Do so far, in order
    ret,            \* what Request returned
    verbose,        \* the client's verbose flag
    logOut,         \* the lines written to a logger, in order
    invKey,         \* the API key of the client Request runs on ("" if none)
    hdr,            \* the header of the request, as Request set it
    bodyPos,        \* how far the reader req.Body has been read
    wire,           \* what each client.Do call transmitted, in order
    bodyCloses,     \* how often the Body of each attempt's response was closed
    \* ---- single-item operations ----
    call,           \* the API method called and its arguments
    req,            \* the HTTP request the method built
    opc,            \* "idle", "called" (request built), "done"
    opRet,          \* what the API method returned
    \* ---- parseBody ----
    pb,             \* the arguments of parseBody: the client and the target v
    stream,         \* respBody: its bytes, the read position, the closes
    pbc,            \* "idle", "decoding", "failed", "returning", "returned"
    pbErr,          \* err after the decode
    pbRet,          \* what parseBody returned
    \* ---- UnmarshalJSON of the positional records ----
    decIn,          \* the decoder called and the JSON value of its input
    decOut,         \* how the call ended, its error, and the target *r
    \* ---- SipHash ----
    sipHasher,      \* sg.sipHasher: the bytes written since its last reset
    sipIn,          \* the running call: the method and its byte slice
    sipc,           \* "idle", "reset", "written": the position in SipHash
    sipLog          \* the calls that returned: input, hash and URI

batchVars == <<maxGoroutines, batch, subUris, net, fed, inChan, inClosed,
               workers, done, doneCap, supI, supervisor, outChan, outClosed,
               consumer, received, limitAtLaunch, fetches, signals, closes,
               panicked, lastSet, setBy, launchedBy>>
reqVars == <<variant, rpc, tries, attempts, ret, verbose, logOut, invKey, hdr,
            bodyPos, wire, bodyCloses>>
opVars == <<call, req, opc, opRet>>
\* what neither the batch engine nor Request touches
pbVars == <<pb, stream, pbc, pbErr, pbRet>>
decVars == <<decIn, decOut>>
hashVars == <<sipHasher, sipIn, sipc, sipLog>>
otherVars == <<opVars, pbVars, decVars, hashVars>>
vars == <<batchVars, reqVars, otherVars>>

(***************************************************************************)
(* URIs.  fmt.Sprintf(urls[queryType], item) is a template with the item   *)
(* substituted: a URI is the pair of its template and the item.            *)
(***************************************************************************)
urls == [ip |-> "/dnsdb/ip/a/%s.json", domain |-> "/dnsdb/name/a/%s.json",
         infected |-> "/infected/names/%s.json"]

Sprintf(template, item) == [template |-> template, item |-> item]

convertToSubUris(items, queryType) ==
    [i \in 1..Len(items) |-> Sprintf(urls[queryType], items[i])]

\* the item lists a caller passes: 1..n, for n up to MaxItems
ItemLists == {[i \in 1..n |-> i] : n \in 0..MaxItems}

(***************************************************************************)
(* GetParse of one URI.  The network decides among: a decoded body, a      *)
(* failed request (Get returns an error: nil value), a failed decode       *)
(* (parseBody returns what the decoder had filled in, and the error).      *)
(***************************************************************************)
NetOutcomes == {"ok", "reqerr", "parseerr"}

GetParse(subUri, outcome) ==
    CASE outcome = "ok"       -> [val |-> [of |-> subUri, body |-> "record"],
                                  err |-> "nil"]
      [] outcome = "reqerr"   -> [val |-> [of |-> subUri, body |-> "nil"],
                                  err |-> "request failed"]
      [] outcome = "parseerr" -> [val |-> [of |-> subUri, body |-> "partial"],
                                  err |-> "decode failed"]

(***************************************************************************)
(* Channel primitives, as the worker and the supervisor use them.          *)
(***************************************************************************)
\* a receive that drops the value behind the one it returns
RangeRecv_Skip(ch) ==
    [val |-> Head(ch), rest |-> IF Len(ch) >= 2 THEN Tail(Tail(ch)) ELSE Tail(ch)]

\* a receive that takes the newest value instead of the oldest
RangeRecv_Lifo(ch) == [val |-> ch[Len(ch)], rest |-> SubSeq(ch, 1, Len(ch) - 1)]

\* for uri := range inChan: the value received and what stays in the channel
RangeRecv(ch) == [val |-> Head(ch), rest |-> Tail(ch)]

\* a send into a one-slot buffer that overwrites what is in it
ChanSend_Overwrite(ch, v) == <<v>>

\* a send that puts the value in front of the queued ones
ChanSend_Front(ch, v) == <<v>> \o ch

\* ch <- v on a buffered channel with room
ChanSend(ch, v) == Append(ch, v)

\* the worker's test before outChan <- outVal
SendsOutVal(err) == err # "nil"

\* one goroutine more than the limit
WorkersLaunched_OneMore(limit) == limit + 1

\* a launch loop that starts one worker when the limit is below one
WorkersLaunched_AtLeastOne(limit) == IF limit < 1 THEN 1 ELSE limit

\* number of worker goroutines pGetParse launches
WorkersLaunched(limit) == limit

\* the supervisor waits for one signal more than there are workers
SupervisorWaits_OneMore(i, limit) == i <= limit

\* the supervisor waits for one signal fewer than there are workers
SupervisorWaits_OneFewer(i, limit) == i < limit - 1

\* the supervisor's loop test i < maxGoroutines
SupervisorWaits(i, limit) == i < limit

\* a limit kept per client: another client's setting is not seen
LimitSeenBy_OwnOnly(sg, setter, limit) ==
    IF setter \in {sg, "none"} THEN limit ELSE DefaultMaxGoroutines

\* the value a method of the client sg reads from the package variable
\* maxGoroutines, last written through the client setter
LimitSeenBy(sg, setter, limit) == limit

\* a bag of n goroutines in state x
Copies(x, n) == IF n <= 0 THEN EmptyBag ELSE [y \in {x} |-> n]

Worker(pc, uri, val) == [pc |-> pc, uri |-> uri, val |-> val]
NoUri == [template |-> "", item |-> 0]
NoVal == [of |-> NoUri, body |-> "none"]
FreshWorker == Worker("range", NoUri, NoVal)

Move(w, w2) == (workers (-) SetToBag({w})) (+) SetToBag({w2})

(***************************************************************************)
(* Initial state: the package is loaded, no batch and no request started.  *)
(***************************************************************************)
Init ==
    /\ maxGoroutines = DefaultMaxGoroutines
    /\ batch = "idle"
    /\ subUris = <<>>
    /\ net = <<>>
    /\ fed = 0
    /\ inChan = <<>>
    /\ inClosed = FALSE
    /\ workers = EmptyBag
    /\ done = 0
    /\ doneCap = 0
    /\ supI = 0
    /\ supervisor = "waiting"
    /\ outChan = <<>>
    /\ outClosed = FALSE
    /\ consumer = "ranging"
    /\ received = <<>>
    /\ limitAtLaunch = 0
    /\ fetches = <<>>
    /\ signals = 0
    /\ closes = 0
    /\ panicked = FALSE
    /\ lastSet = -1
    /\ setBy = "none"
    /\ launchedBy = "none"
    /\ variant = "sgraph"
    /\ rpc = "idle"
    /\ tries = 0
    /\ attempts = <<>>
    /\ ret = [resp |-> "none", err |-> "none"]
    /\ verbose = FALSE
    /\ logOut = <<>>
    /\ invKey = ""
    /\ hdr = {}
    /\ bodyPos = 0
    /\ wire = <<>>
    /\ bodyCloses = <<>>
    /\ call = [client |-> "none", fn |-> "none"]
    /\ req = [kind |-> "none", method |-> "none", uri |-> "", body |-> <<>>]
    /\ opc = "idle"
    /\ opRet = [val |-> "none", err |-> "none", parsed |-> "none"]
    /\ pb = [client |-> "none", supported |-> TRUE, fits |-> TRUE]
    /\ stream = [data |-> <<>>, failAt |-> -1, pos |-> 0, closes |-> 0]
    /\ pbc = "idle"
    /\ pbErr = "nil"
    /\ pbRet = [kind |-> "none"]
    /\ decIn = [decoder |-> "none"]
    /\ decOut = [status |-> "none"]
    /\ sipHasher = <<>>
    /\ sipIn = [g \in {"g1", "g2"} |-> [fn |-> "none", b |-> <<>>]]
    /\ sipc = [g \in {"g1", "g2"} |-> "idle"]
    /\ sipLog = <<>>

\* a setter that leaves the package variable as it is
SetMaxGoroutines_NoEffect(sg, n) ==
    /\ lastSet' = n
    /\ setBy' = sg
    /\ UNCHANGED launchedBy
    /\ UNCHANGED <<maxGoroutines, batch, subUris, net, fed, inChan, inClosed,
                   workers, done, doneCap, supI, supervisor, outChan,
                   outClosed, consumer, received, limitAtLaunch, fetches,
                   signals, closes, panicked>>
    /\ UNCHANGED <<reqVars, otherVars>>

(***************************************************************************)
(* (sg *SGraph) SetMaxGoroutines(n): maxGoroutines = n.  The receiver is   *)
(* not used: the limit is a variable of the package.                       *)
(***************************************************************************)
SetMaxGoroutines(sg, n) ==
    /\ maxGoroutines' = n
    /\ lastSet' = n
    /\ setBy' = sg
    /\ UNCHANGED launchedBy
    /\ UNCHANGED <<batch, subUris, net, fed, inChan, inClosed, workers, done,
                   doneCap, supI, supervisor, outChan, outClosed, consumer,
                   received, limitAtLaunch, fetches, signals, closes,
                   panicked>>
    /\ UNCHANGED <<reqVars, otherVars>>

(***************************************************************************)
(* GetIps(items): convertToSubUris, then pGetParse: make the three         *)
(* channels, start the feeder, the workers and the supervisor, return      *)
(* outChan to the caller, who ranges over it.                              *)
(***************************************************************************)
pGetParse(sg, items) ==
    /\ batch = "idle"
    /\ batch' = "running"
    /\ launchedBy' = sg
    /\ subUris' = convertToSubUris(items, "ip")
    /\ net' = [u \in {subUris'[i] : i \in 1..Len(items)} |-> "pending"]
    /\ fed' = 0
    /\ inChan' = <<>>
    /\ inClosed' = FALSE
    /\ outChan' = <<>>
    /\ outClosed' = FALSE
    /\ done' = 0
    /\ doneCap' = LimitSeenBy(sg, setBy, maxGoroutines)
    /\ workers' = Copies(FreshWorker,
                         WorkersLaunched(LimitSeenBy(sg, setBy, maxGoroutines)))
    /\ supI' = 0
    /\ supervisor' = "waiting"
    /\ limitAtLaunch' = LimitSeenBy(sg, setBy, maxGoroutines)
    /\ fetches' = [u \in {subUris'[i] : i \in 1..Len(items)} |-> 0]
    /\ UNCHANGED <<maxGoroutines, consumer, received, signals, closes,
                   panicked>>
    /\ UNCHANGED <<lastSet, setBy, reqVars, otherVars>>

\* the clients of the process
Clients == {"sg1", "sg2"}

GetIps == \E items \in ItemLists : pGetParse("sg1", items)

\* channels one slot smaller than the list
ChanCap_OneShort == Len(subUris) - 1

\* capacity of inChan and of outChan: len(subUris)
ChanCap == Len(subUris)

Running == batch = "running" /\ ~panicked

\* every value sent on outChan so far, in the order of the sends
sent == received \o outChan

(***************************************************************************)
(* The feeder goroutine: for _, uri := range subUris { inChan <- uri };    *)
(* close(inChan).                                                          *)
(***************************************************************************)
FeederSend ==
    /\ Running
    /\ fed < Len(subUris)
    /\ Len(inChan) < ChanCap
    /\ inChan' = Append(inChan, subUris[fed + 1])
    /\ fed' = fed + 1
    /\ UNCHANGED <<maxGoroutines, batch, subUris, net, inClosed, workers, done,
                   doneCap, supI, supervisor, outChan, outClosed, consumer,
                   received, limitAtLaunch, fetches, signals, closes,
                   panicked>>
    /\ UNCHANGED <<lastSet, setBy, launchedBy, reqVars, otherVars>>

FeederClose ==
    /\ Running
    /\ fed = Len(subUris)
    /\ ~inClosed
    /\ inClosed' = TRUE
    /\ UNCHANGED <<maxGoroutines, batch, subUris, net, fed, inChan, workers,
                   done, doneCap, supI, supervisor, outChan, outClosed,
                   consumer, received, limitAtLaunch, fetches, signals,
                   closes, panicked>>
    /\ UNCHANGED <<lastSet, setBy, launchedBy, reqVars, otherVars>>

(***************************************************************************)
(* A worker goroutine, doPGetParse.                                        *)
(***************************************************************************)
\* for uri := range inChan: a URI is received and GetParse(uri) is called
WorkerRecv ==
    /\ Running
    /\ inChan # <<>>
    /\ \E w \in BagToSet(workers) :
        /\ w.pc = "range"
        /\ LET r == RangeRecv(inChan) IN
            /\ inChan' = r.rest
            /\ workers' = Move(w, Worker("GetParse", r.val, NoVal))
            /\ fetches' = [fetches EXCEPT ![r.val] = @ + 1]
    /\ UNCHANGED <<maxGoroutines, batch, subUris, net, fed, inClosed, done,
                   doneCap, supI, supervisor, outChan, outClosed, consumer,
                   received, limitAtLaunch, signals, closes, panicked>>
    /\ UNCHANGED <<lastSet, setBy, launchedBy, reqVars, otherVars>>

\* for uri := range inChan: the channel is closed and drained, the loop ends
WorkerRangeEnd ==
    /\ Running
    /\ inChan = <<>>
    /\ inClosed
    /\ \E w \in BagToSet(workers) :
        /\ w.pc = "range"
        /\ workers' = Move(w, Worker("signal", NoUri, NoVal))
    /\ UNCHANGED <<maxGoroutines, batch, subUris, net, fed, inChan, inClosed,
                   done, doneCap, supI, supervisor, outChan, outClosed,
                   consumer, received, limitAtLaunch, fetches, signals,
                   closes, panicked>>
    /\ UNCHANGED <<lastSet, setBy, launchedBy, reqVars, otherVars>>

\* outVal, err := GetParse(uri) returns; if err != nil the worker goes on to
\* send outVal, otherwise it takes the next URI
WorkerGetParse ==
    /\ Running
    /\ \E w \in BagToSet(workers), outcome \in NetOutcomes :
        /\ w.pc = "GetParse"
        /\ net' = [net EXCEPT ![w.uri] = outcome]
        /\ LET r == GetParse(w.uri, outcome) IN
            workers' = IF SendsOutVal(r.err)
                       THEN Move(w, Worker("send", w.uri, r.val))
                       ELSE Move(w, FreshWorker)
    /\ UNCHANGED <<maxGoroutines, batch, subUris, fed, inChan, inClosed,
                   done, doneCap, supI, supervisor, outChan, outClosed,
                   consumer, received, limitAtLaunch, fetches, signals,
                   closes, panicked>>
    /\ UNCHANGED <<lastSet, setBy, launchedBy, reqVars, otherVars>>

\* outChan <- outVal: blocks while the buffer is full, panics when closed
WorkerSend ==
    /\ Running
    /\ \E w \in BagToSet(workers) :
        /\ w.pc = "send"
        /\ IF outClosed
           THEN /\ panicked' = TRUE
                /\ UNCHANGED <<workers, outChan>>
           ELSE /\ Len(outChan) < ChanCap
                /\ outChan' = ChanSend(outChan, w.val)
                /\ workers' = Move(w, FreshWorker)
                /\ UNCHANGED panicked
    /\ UNCHANGED <<maxGoroutines, batch, subUris, net, fed, inChan, inClosed,
                   done, doneCap, supI, supervisor, outClosed, consumer,
                   received, limitAtLaunch, fetches, signals, closes>>
    /\ UNCHANGED <<lastSet, setBy, launchedBy, reqVars, otherVars>>

\* done <- 1
WorkerSignal ==
    /\ Running
    /\ done < doneCap
    /\ \E w \in BagToSet(workers) :
        /\ w.pc = "signal"
        /\ workers' = Move(w, Worker("exited", NoUri, NoVal))
    /\ done' = done + 1
    /\ signals' = signals + 1
    /\ UNCHANGED <<maxGoroutines, batch, subUris, net, fed, inChan, inClosed,
                   doneCap, supI, supervisor, outChan, outClosed, consumer,
                   received, limitAtLaunch, fetches, closes, panicked>>
    /\ UNCHANGED <<lastSet, setBy, launchedBy, reqVars, otherVars>>

(***************************************************************************)
(* The supervisor goroutine: for i := 0; i < maxGoroutines; i++ { <-done } *)
(* close(outChan).  The loop test reads the package variable each time.    *)
(***************************************************************************)
SupervisorWait ==
    /\ Running
    /\ supervisor = "waiting"
    /\ SupervisorWaits(supI, LimitSeenBy(launchedBy, setBy, maxGoroutines))
    /\ done > 0
    /\ done' = done - 1
    /\ supI' = supI + 1
    /\ UNCHANGED <<maxGoroutines, batch, subUris, net, fed, inChan, inClosed,
                   workers, doneCap, supervisor, outChan, outClosed, consumer,
                   received, limitAtLaunch, fetches, signals, closes,
                   panicked>>
    /\ UNCHANGED <<lastSet, setBy, launchedBy, reqVars, otherVars>>

SupervisorClose ==
    /\ Running
    /\ supervisor = "waiting"
    /\ ~SupervisorWaits(supI, LimitSeenBy(launchedBy, setBy, maxGoroutines))
    /\ supervisor' = "exited"
    /\ IF outClosed
       THEN panicked' = TRUE /\ UNCHANGED <<outClosed, closes>>
       ELSE outClosed' = TRUE /\ closes' = closes + 1 /\ UNCHANGED panicked
    /\ UNCHANGED <<maxGoroutines, batch, subUris, net, fed, inChan, inClosed,
                   workers, done, doneCap, supI, outChan, consumer, received,
                   limitAtLaunch, fetches, signals>>
    /\ UNCHANGED <<lastSet, setBy, launchedBy, reqVars, otherVars>>

(***************************************************************************)
(* The caller: for result := range resultsChan { ... }                     *)
(***************************************************************************)
ConsumerRecv ==
    /\ Running
    /\ consumer = "ranging"
    /\ outChan # <<>>
    /\ received' = Append(received, Head(outChan))
    /\ outChan' = Tail(outChan)
    /\ UNCHANGED <<maxGoroutines, batch, subUris, net, fed, inChan, inClosed,
                   workers, done, doneCap, supI, supervisor, outClosed,
                   consumer, limitAtLaunch, fetches, signals, closes,
                   panicked>>
    /\ UNCHANGED <<lastSet, setBy, launchedBy, reqVars, otherVars>>

ConsumerFinish ==
    /\ Running
    /\ consumer = "ranging"
    /\ outChan = <<>>
    /\ outClosed
    /\ consumer' = "finished"
    /\ UNCHANGED <<maxGoroutines, batch, subUris, net, fed, inChan, inClosed,
                   workers, done, doneCap, supI, supervisor, outChan,
                   outClosed, received, limitAtLaunch, fetches, signals,
                   closes, panicked>>
    /\ UNCHANGED <<lastSet, setBy, launchedBy, reqVars, otherVars>>

\* the caller sets the limit before it starts the batch
CallerSetsLimit ==
    \E n \in 0..MaxPool : batch = "idle" /\ SetMaxGoroutines("sg1", n)

Feeder == FeederSend \/ FeederClose
WorkerStep == WorkerRecv \/ WorkerRangeEnd \/ WorkerGetParse \/ WorkerSend
                \/ WorkerSignal
Supervisor == SupervisorWait \/ SupervisorClose
Consumer == ConsumerRecv \/ ConsumerFinish

Next ==
    \/ CallerSetsLimit
    \/ GetIps
    \/ FeederSend
    \/ FeederClose
    \/ WorkerRecv
    \/ WorkerRangeEnd
    \/ WorkerGetParse
    \/ WorkerSend
    \/ WorkerSignal
    \/ SupervisorWait
    \/ SupervisorClose
    \/ ConsumerRecv
    \/ ConsumerFinish

Spec == Init /\ [][Next]_vars

\* the Go scheduler runs every goroutine that can take a step
FairSpec ==
    /\ Spec
    /\ WF_vars(Feeder)
    /\ WF_vars(WorkerStep)
    /\ WF_vars(Supervisor)
    /\ WF_vars(Consumer)

\* the goroutines of the batch are scheduled, the caller may never come
\* back to read the channel it was given
NoReaderSpec ==
    /\ Spec
    /\ WF_vars(Feeder)
    /\ WF_vars(WorkerStep)
    /\ WF_vars(Supervisor)

(***************************************************************************)
(* The package in a process with several clients: any client sets the      *)
(* limit before a batch, and any client launches the batch.                *)
(***************************************************************************)
AnyClientSetsLimit ==
    \E sg \in Clients, n \in 0..MaxPool :
        batch = "idle" /\ SetMaxGoroutines(sg, n)

AnyClientGetIps == \E sg \in Clients, items \in ItemLists : pGetParse(sg, items)

PkgNext ==
    \/ AnyClientSetsLimit
    \/ AnyClientGetIps
    \/ FeederSend
    \/ FeederClose
    \/ WorkerRecv
    \/ WorkerRangeEnd
    \/ WorkerGetParse
    \/ WorkerSend
    \/ WorkerSignal
    \/ SupervisorWait
    \/ SupervisorClose
    \/ ConsumerRecv
    \/ ConsumerFinish

PkgSpec == Init /\ [][PkgNext]_vars

(***************************************************************************)
(* A caller that sets the limit while its batch runs: pGetParse has        *)
(* returned, the goroutines of the batch run, and SetMaxGoroutines writes  *)
(* the package variable that the supervisor reads in its loop test.  The   *)
(* write and the reads are not synchronised: the supervisor sees the old   *)
(* or the new value, in whatever order the steps fall.  (One change per    *)
(* batch.)                                                                 *)
(***************************************************************************)
SetsLimitAfterLaunch ==
    \E n \in 0..MaxPool :
        /\ Running
        /\ maxGoroutines = limitAtLaunch
        /\ SetMaxGoroutines("sg1", n)

LateNext ==
    \/ CallerSetsLimit
    \/ SetsLimitAfterLaunch
    \/ GetIps
    \/ FeederSend
    \/ FeederClose
    \/ WorkerRecv
    \/ WorkerRangeEnd
    \/ WorkerGetParse
    \/ WorkerSend
    \/ WorkerSignal
    \/ SupervisorWait
    \/ SupervisorClose
    \/ ConsumerRecv
    \/ ConsumerFinish

LateSpec == Init /\ [][LateNext]_vars

(***************************************************************************)
(* Request: the retry loop around client.Do.                               *)
(*                                                                         *)
(*   "sgraph":  SGraph.Request, which treats err != nil as a failed        *)
(*              attempt and sets no header (the client has a certificate); *)
(*   "generic": the generic Investigate.Request, which does the same and   *)
(*              sets the Authorization header;                             *)
(*   "typed":  the typed Investigate.Request, which treats                 *)
(*             err != nil || resp.StatusCode >= 300 as a failed attempt.   *)
(***************************************************************************)
Variants == {"sgraph", "typed", "generic"}

\* the keys given to New(key)
Keys == {"key-1", "key-2"}

\* errors: the nil error, an error of the transport, and the error Request
\* builds with errors.New(fmt.Sprintf("error: %v\nFailed all attempts...", err))
NoErr == [msg |-> "nil", wraps |-> ""]
TransportErr(text) == [msg |-> text, wraps |-> ""]
FailedAllAttempts(err) ==
    [msg |-> "Failed all attempts. Skipping.",
     wraps |-> IF err = NoErr THEN "<nil>" ELSE err.msg]

\* responses: the nil pointer, and a *http.Response with its Body ("nil" or
\* "stream") and its StatusCode
NilResponse == [isNil |-> TRUE, Body |-> "nil", StatusCode |-> 0]
Response(body, status) == [isNil |-> FALSE, Body |-> body, StatusCode |-> status]
\* new(http.Response)
NewResponse == Response("nil", 0)

\* what client.Do(req) may return
DoResults ==
    {[resp |-> NilResponse, err |-> TransportErr(t)] : t \in {"timeout", "refused"}}
    \cup {[resp |-> Response(b, s), err |-> NoErr] :
            b \in {"nil", "stream"}, s \in {200, 404}}

\* a test that looks at the transport error only
AttemptFailed_ErrOnly(v, r) == r.err # NoErr

\* the test that makes an attempt a failed one
AttemptFailed(v, r) ==
    IF v = "typed"
    THEN r.err # NoErr \/ r.resp.StatusCode >= 300
    ELSE r.err # NoErr

\* the last try is recognised one iteration too late
LastTry_OffByOne(t) == t = maxTries

\* if tries == maxTries-1
LastTry(t) == t = maxTries - 1

\* a loop test that ignores the response
LoopCond_IgnoresBody(resp, t) == t < maxTries

\* the loop test resp.Body == nil && tries < maxTries
LoopCond(resp, t) == resp.Body = "nil" /\ t < maxTries

\* log lines: the logger that wrote the line and what the line reports
LogLine(logger, about) == [logger |-> logger, about |-> about]

\* inv.Log / inv.Logf: the client's logger, only when verbose is set
Logf(isVerbose, about) ==
    IF isVerbose THEN <<LogLine("inv.log", about)>> ELSE <<>>

\* log.Printf: the standard logger of package log
StdLogPrintf(about) == <<LogLine("log", about)>>

\* SetVerbose(verbose): inv.verbose = verbose
SetVerbose(b) ==
    /\ verbose' = b
    /\ UNCHANGED <<variant, rpc, tries, attempts, ret, logOut, invKey, hdr,
                   bodyPos, wire, bodyCloses>>
    /\ UNCHANGED <<batchVars, otherVars>>

\* the header value fmt.Sprintf("Bearer %s", inv.key)
Bearer(k) == [name |-> "Authorization", value |-> <<"Bearer", k>>]

\* a Request that leaves the header of the request alone
SetAuthorization_None(v, k, header) == header

\* req.Header.Set("Authorization", ...): only the Investigate clients
SetAuthorization(v, k, header) ==
    IF v = "sgraph" THEN header
    ELSE {h \in header : h.name # "Authorization"} \cup {Bearer(k)}

\* what client.Do(req) puts on the wire: the request line, the header and
\* what is left to read of req.Body
Transmit(r, header, pos) ==
    [method |-> r.method, uri |-> r.uri, header |-> header,
     body |-> SubSeq(r.body, pos + 1, Len(r.body))]

\* the position of the reader req.Body after client.Do: a refused
\* connection reads nothing, everything else has written the request out
BodyRead(r, result, pos) ==
    IF result.err = TransportErr("refused") THEN pos ELSE Len(r.body)

\* the caller (Get or Post) calls Request on a client with the key k; the
\* header is set, and resp := new(http.Response) and tries := 0 make the
\* first loop test true
RequestStart(v, k) ==
    /\ rpc = "idle"
    /\ LoopCond(NewResponse, 0)
    /\ variant' = v
    /\ invKey' = IF v = "sgraph" THEN "" ELSE k
    /\ hdr' = SetAuthorization(v, k, {})
    /\ wire' = <<>>
    /\ bodyCloses' = <<>>
    /\ rpc' = "loop"
    /\ tries' = 0
    /\ attempts' = <<>>
    /\ UNCHANGED <<ret, verbose, logOut, bodyPos>>
    /\ UNCHANGED <<batchVars, otherVars>>

\* one iteration: the Logf of the request line, resp, err = client.Do(req),
\* the failure test (with its log.Printf before a retry), tries++ and the
\* loop test that follows; a response that fails the test is dropped
\* (resp = new(http.Response), or return nil) with its Body as it is
RequestAttempt(r) ==
    /\ rpc = "loop"
    /\ attempts' = Append(attempts, r)
    /\ wire' = Append(wire, Transmit(req, hdr, bodyPos))
    /\ bodyCloses' = Append(bodyCloses, 0)
    /\ bodyPos' = BodyRead(req, r, bodyPos)
    /\ IF AttemptFailed(variant, r) /\ LastTry(tries)
       THEN /\ rpc' = "returned"
            /\ ret' = [resp |-> NilResponse, err |-> FailedAllAttempts(r.err)]
            /\ logOut' = logOut \o Logf(verbose, "attempt")
            /\ UNCHANGED tries
       ELSE LET resp == IF AttemptFailed(variant, r) THEN NewResponse ELSE r.resp
            IN  /\ tries' = tries + 1
                /\ logOut' = logOut \o Logf(verbose, "attempt")
                                \o (IF AttemptFailed(variant, r)
                                    THEN StdLogPrintf("trying again")
                                    ELSE <<>>)
                /\ IF LoopCond(resp, tries + 1)
                   THEN rpc' = "loop" /\ UNCHANGED ret
                   ELSE rpc' = "returned" /\ ret' = [resp |-> resp, err |-> r.err]
    /\ UNCHANGED <<variant, verbose, invKey, hdr>>
    /\ UNCHANGED <<batchVars, otherVars>>

Request == \E v \in Variants, k \in Keys : RequestStart(v, k)
ClientDo == \E r \in DoResults : RequestAttempt(r)
\* the caller sets the flag before it makes a request
CallerSetsVerbose == \E b \in BOOLEAN : rpc = "idle" /\ SetVerbose(b)

ReqNext ==
    \/ CallerSetsVerbose
    \/ Request
    \/ ClientDo

ReqSpec == Init /\ [][ReqNext]_vars

(***************************************************************************)
(* Single-item operations of the two Investigate clients:                  *)
(*   "typed":   goinvestigate.go (IpRRHistory, DomainRRHistory,            *)
(*              Categorization, Categorizations);                          *)
(*   "generic": the client returning interface{} (RRHistory and            *)
(*              Categorization over a string or a list of strings).        *)
(* A method builds its URI, calls Get or Post, which call Request, and     *)
(* parses the body of the response.                                        *)
(***************************************************************************)
invUrls == [ip |-> "/dnsdb/ip/%s/%s.json",
            domain |-> "/dnsdb/name/%s/%s.json",
            categorization |-> "/domains/categorization/%s"]

\* fmt.Sprintf of a template with its arguments
SprintfN(template, args) == [template |-> template, args |-> args]

\* a query type test that ignores the letter case
queryTypeSupported_AnyCase(qType) ==
    qType \in {"A", "NS", "MX", "TXT", "CNAME", "a", "ns", "mx", "txt", "cname"}

\* _, ok := supportedQueryTypes[qType]
queryTypeSupported(qType) == qType \in {"A", "NS", "MX", "TXT", "CNAME"}

\* url.Values.Encode: the key=value pairs of the query string, sorted by key
\* (the values built here hold at most one key)
Encode(v) == IF v = {} THEN <<>> ELSE <<CHOOSE kv \in v : TRUE>>

\* catUri: the categorization path with showLabels=true when labels is set
catUri(domain, labels) ==
    LET v == IF labels THEN {[key |-> "showLabels", value |-> "true"]} ELSE {}
    IN  [path |-> SprintfN(invUrls.categorization, <<domain>>),
         rawQuery |-> Encode(v)]

\* a URI without a query string
PlainUri(path) == [path |-> path, rawQuery |-> <<>>]

\* queries: the text and where it holds a match of (\d{1,3}\.){3}\d{1,3}
\* ("whole": the text is a dotted quad, "inside": part of it is, "none")
Queries == {[text |-> "208.64.121.161", quad |-> "whole"],
            [text |-> "bibikun.ru", quad |-> "none"],
            [text |-> "1.2.3.4.example.com", quad |-> "inside"]}

\* regexp.MatchString(`(\d{1,3}\.){3}\d{1,3}`, query): an unanchored match
MatchString(query) == query.quad # "none"

QueryTypes == {"A", "NS", "MX", "TXT", "CNAME", "AFSDB", "a"}

NoQuery == [text |-> "", quad |-> "none"]
ApiCall(client, fn, kind, query, domains, qType, labels) ==
    [client |-> client, fn |-> fn, kind |-> kind, query |-> query,
     domains |-> domains, qType |-> qType, labels |-> labels]

\* the calls a program makes
ApiCalls ==
    {ApiCall("typed", fn, "string", q, <<>>, t, FALSE) :
        fn \in {"IpRRHistory", "DomainRRHistory"}, q \in Queries, t \in QueryTypes}
    \cup {ApiCall("generic", "RRHistory", "string", q, <<>>, t, FALSE) :
        q \in Queries, t \in QueryTypes}
    \cup {ApiCall("typed", "Categorization", "string", NoQuery, <<"a.com">>, "", l) :
        l \in BOOLEAN}
    \cup {ApiCall("typed", "Categorizations", "list", NoQuery, <<"a.com", "b.com">>, "", l) :
        l \in BOOLEAN}
    \cup {ApiCall("generic", "Categorization", k, NoQuery,
                  IF k = "string" THEN <<"a.com">>
                  ELSE IF k = "list" THEN <<"a.com", "b.com">> ELSE <<>>, "", l) :
        k \in {"string", "list", "other"}, l \in BOOLEAN}

\* a POST that goes out as a GET
Post_AsGet(uri, body) == [kind |-> "request", method |-> "GET", uri |-> uri, body |-> body]

\* http.NewRequest
Get(uri) == [kind |-> "request", method |-> "GET", uri |-> uri, body |-> <<>>]
Post(uri, body) == [kind |-> "request", method |-> "POST", uri |-> uri, body |-> body]
\* the method returns (nil, err) without a request
Fails(err) == [kind |-> "fails", err |-> err]

\* the generic postCategorization: the URI is built without catUri
postCategorization(domains, labels) ==
    Post(PlainUri(SprintfN(invUrls.categorization, <<"">>)), domains)

\* what a method does up to its call of Get or Post
Plan(c) ==
    CASE c.fn \in {"IpRRHistory", "DomainRRHistory", "RRHistory"} ->
            IF ~queryTypeSupported(c.qType)
            THEN Fails("unsupported query type")
            ELSE IF c.fn = "IpRRHistory" \/ (c.fn = "RRHistory" /\ MatchString(c.query))
            THEN Get(PlainUri(SprintfN(invUrls.ip, <<c.qType, c.query.text>>)))
            ELSE Get(PlainUri(SprintfN(invUrls.domain, <<c.qType, c.query.text>>)))
      [] c.fn = "Categorizations" ->
            Post(catUri("", c.labels), c.domains)
      [] c.fn = "Categorization" /\ c.client = "typed" ->
            Get(catUri(c.domains[1], c.labels))
      [] c.fn = "Categorization" /\ c.client = "generic" ->
            IF c.kind = "string" THEN Get(catUri(c.domains[1], c.labels))
            ELSE IF c.kind = "list" THEN postCategorization(c.domains, c.labels)
            ELSE Fails("domains must be either a string, or a list of strings")

\* the Request variant of a client
ClientVariant(client) == IF client = "typed" THEN "typed" ELSE "generic"

\* the program calls an API method: the method checks its arguments and
\* builds its request, or returns an error at once
ApiMethod(c) ==
    /\ opc = "idle"
    /\ rpc = "idle"
    /\ call' = c
    /\ LET plan == Plan(c) IN
        IF plan.kind = "fails"
        THEN /\ opc' = "done"
             /\ opRet' = [val |-> "nil", err |-> plan.err, parsed |-> "none"]
             /\ UNCHANGED req
        ELSE /\ opc' = "called"
             /\ req' = plan
             /\ UNCHANGED opRet
    /\ UNCHANGED <<batchVars, reqVars, pbVars, decVars, hashVars>>

\* Get / Post hand the request to Request
ApiRequest ==
    /\ opc = "called"
    /\ RequestStart(ClientVariant(call.client), "key-1")

\* parseBody: defer respBody.Close(), on the body of the response that
\* Request returned (the one of attempt k)
BodyClosed(counts, k) == [counts EXCEPT ![k] = @ + 1]

\* what parseBody makes of the body: decoded, decoded without the entry of
\* the requested domain, or a decode error
ParseOutcomes == {"decoded", "no entry", "decode error"}

\* GetParse / PostParse after Request returned, and the method's return
ApiReturn(parsed) ==
    /\ opc = "called"
    /\ rpc = "returned"
    /\ opc' = "done"
    /\ IF ret.err # NoErr
       THEN /\ opRet' = [val |-> "nil", err |-> ret.err.msg, parsed |-> "none"]
            /\ logOut' = logOut \o Logf(verbose, "error")
       ELSE IF ret.resp.Body = "nil"
       THEN /\ opRet' = [val |-> "panic", err |-> "nil pointer dereference",
                         parsed |-> "none"]
            /\ UNCHANGED logOut
       ELSE IF parsed = "decode error"
       THEN /\ opRet' = [val |-> IF call.client = "typed" THEN "nil" ELSE "partial",
                         err |-> "decode error", parsed |-> parsed]
            /\ logOut' = logOut \o Logf(verbose, "error")
       ELSE IF parsed = "no entry" /\ call.client = "typed"
                /\ call.fn = "Categorization"
       THEN /\ opRet' = [val |-> "nil", err |-> "received a malformed response body",
                         parsed |-> parsed]
            /\ UNCHANGED logOut
       ELSE /\ opRet' = [val |-> "value", err |-> "nil", parsed |-> parsed]
            /\ UNCHANGED logOut
    /\ bodyCloses' = IF ret.err = NoErr /\ ret.resp.Body # "nil"
                     THEN BodyClosed(bodyCloses, Len(attempts))
                     ELSE bodyCloses
    /\ UNCHANGED <<call, req>>
    /\ UNCHANGED <<variant, rpc, tries, attempts, ret, verbose, invKey, hdr,
                   bodyPos, wire>>
    /\ UNCHANGED <<batchVars, pbVars, decVars, hashVars>>

Api == \E c \in ApiCalls : ApiMethod(c)
ApiParse == \E parsed \in ParseOutcomes : ApiReturn(parsed)

OpNext ==
    \/ Api
    \/ ApiRequest
    \/ ClientDo
    \/ ApiParse

OpSpec == Init /\ [][OpNext]_vars

(***************************************************************************)
(* parseBody(respBody, v): decode the JSON body of a response into v and   *)
(* close the body.  The body is a stream of bytes: "g" is a byte of a well *)
(* formed JSON value, "x" a byte at which the text stops being JSON.  A    *)
(* stream may fail: with failAt = k the bytes after the first k cannot be  *)
(* read and the read returns an error (failAt = -1: it never fails).       *)
(* The typed client's parseBody switches on the type of v and, when the    *)
(* decode failed, reads what is left of the stream; the generic client's   *)
(* decodes into an interface{} and returns.                                *)
(***************************************************************************)
MaxBody == 3

Bytes == {"g", "x"}
Bodies == UNION {[1..n -> Bytes] : n \in 0..MaxBody}

Min(a, b) == IF a <= b THEN a ELSE b

\* the offset of the first byte that is not JSON, 0 when there is none
FirstBad(data) ==
    IF \E k \in 1..Len(data) : data[k] = "x"
    THEN CHOOSE k \in 1..Len(data) :
            data[k] = "x" /\ \A j \in 1..(k - 1) : data[j] = "g"
    ELSE 0

\* the bytes the decoder must have read before it can tell the outcome
Needed(data) == IF FirstBad(data) # 0 THEN FirstBad(data) ELSE Len(data)

\* the bytes that can be read from a stream before it fails or ends
Readable(st) == IF st.failAt = -1 THEN Len(st.data) ELSE Min(st.failAt, Len(st.data))

\* json.Decoder.Decode over the first bytes of the stream: the error it
\* returns ("nil" when v was filled)
Decode(st, fits) ==
    IF Readable(st) < Needed(st.data) THEN "read error"
    ELSE IF FirstBad(st.data) # 0 THEN "syntax error"
    ELSE IF Len(st.data) = 0 THEN "EOF"
    ELSE IF ~fits THEN "unmarshal type error"
    ELSE "nil"

\* ioutil.ReadAll(respBody): the bytes from the read position to the end,
\* or an error when the stream fails
ReadAll(st) ==
    IF st.failAt # -1
    THEN [body |-> <<>>, readErr |-> "read error"]
    ELSE [body |-> SubSeq(st.data, st.pos + 1, Len(st.data)), readErr |-> "nil"]

\* respBody.Close()
Close(st) == [st EXCEPT !.closes = @ + 1]

JSONDecodeError(err, body) == [kind |-> "JSONDecodeError", Err |-> err, Body |-> body]
PlainError(err) == [kind |-> "error", Err |-> err, Body |-> <<>>]
NilError == [kind |-> "nil", Err |-> "nil", Body |-> <<>>]

\* parseBody is called on a fresh response body
parseBody(client, supported, fits, data, failAt) ==
    /\ pbc = "idle"
    /\ pb' = [client |-> client, supported |-> supported, fits |-> fits]
    /\ stream' = [data |-> data, failAt |-> failAt, pos |-> 0, closes |-> 0]
    /\ pbc' = "decoding"
    /\ UNCHANGED <<pbErr, pbRet>>
    /\ UNCHANGED <<batchVars, reqVars, opVars, decVars, hashVars>>

\* d := json.NewDecoder(respBody); the type switch; d.Decode(v).  The
\* decoder reads the stream in blocks, so it has read c bytes: at least
\* those it needed, at most those the stream gives.
PbDecode(c) ==
    /\ pbc = "decoding"
    /\ IF pb.client = "typed" /\ ~pb.supported
       THEN /\ c = 0
            /\ pbErr' = "type of v is unsupported"
       ELSE /\ c >= Min(Needed(stream.data), Readable(stream))
            /\ c <= Readable(stream)
            /\ pbErr' = Decode(stream, pb.fits)
    /\ stream' = [stream EXCEPT !.pos = c]
    /\ pbc' = IF pbErr' # "nil" /\ pb.client = "typed" THEN "failed" ELSE "returning"
    /\ pbRet' = IF pbErr' = "nil" THEN NilError ELSE PlainError(pbErr')
    /\ UNCHANGED pb
    /\ UNCHANGED <<batchVars, reqVars, opVars, decVars, hashVars>>

\* if err != nil { body, readErr := ioutil.ReadAll(respBody) ... }
PbReadAll ==
    /\ pbc = "failed"
    /\ LET r == ReadAll(stream) IN
        IF r.readErr # "nil"
        THEN /\ logOut' = logOut \o StdLogPrintf("error reading body")
             /\ pbRet' = PlainError(pbErr)
             /\ stream' = [stream EXCEPT !.pos = Readable(stream)]
        ELSE /\ pbRet' = JSONDecodeError(pbErr, r.body)
             /\ stream' = [stream EXCEPT !.pos = Len(stream.data)]
             /\ UNCHANGED logOut
    /\ pbc' = "returning"
    /\ UNCHANGED <<pb, pbErr>>
    /\ UNCHANGED <<variant, rpc, tries, attempts, ret, verbose, invKey, hdr,
                   bodyPos, wire, bodyCloses>>
    /\ UNCHANGED <<batchVars, opVars, decVars, hashVars>>

\* a return that closes the body only after a successful decode
PbReturn_CloseOnSuccess ==
    /\ pbc = "returning"
    /\ stream' = IF pbErr = "nil" THEN Close(stream) ELSE stream
    /\ pbc' = "returned"
    /\ UNCHANGED <<pb, pbErr, pbRet>>
    /\ UNCHANGED <<batchVars, reqVars, opVars, decVars, hashVars>>

\* the return: the deferred respBody.Close() runs
PbReturn ==
    /\ pbc = "returning"
    /\ stream' = Close(stream)
    /\ pbc' = "returned"
    /\ UNCHANGED <<pb, pbErr, pbRet>>
    /\ UNCHANGED <<batchVars, reqVars, opVars, decVars, hashVars>>

PbCall ==
    \E client \in {"typed", "generic"}, supported \in BOOLEAN, fits \in BOOLEAN,
       data \in Bodies :
        \E failAt \in -1..Len(data) :
            /\ (client = "generic" => supported)
            /\ parseBody(client, supported, fits, data, failAt)
PbDecoderReads == \E c \in 0..MaxBody : PbDecode(c)

PbNext ==
    \/ PbCall
    \/ PbDecoderReads
    \/ PbReadAll
    \/ PbReturn

PbSpec == Init /\ [][PbNext]_vars

(***************************************************************************)
(* UnmarshalJSON of CooccurrenceList, RelatedDomainList and GeoFeatures.   *)
(* Each first unmarshals the bytes into an untyped value (raw) and then    *)
(* walks it.  A JSON value is a record: t is its type, s the text of a     *)
(* string (the key of a one-key object), n a number in tenths (25 is 2.5), *)
(* items the entries of an array (the value of a one-key object).          *)
(***************************************************************************)
MaxPairs == 2       \* elements of the list under the key
MaxEntries == 3     \* entries of one positional array

Str(s) == [t |-> "string", s |-> s, n |-> 0, items |-> <<>>]
Num(n) == [t |-> "number", s |-> "", n |-> n, items |-> <<>>]
Null == [t |-> "null", s |-> "", n |-> 0, items |-> <<>>]
Arr(items) == [t |-> "array", s |-> "", n |-> 0, items |-> items]
Obj(key, val) == [t |-> "object", s |-> key, n |-> 0, items |-> <<val>>]
EmptyObj == [t |-> "object", s |-> "", n |-> 0, items |-> <<>>]

Scalars == {Str("a.com"), Num(25), Num(-15)}
\* positional arrays with 0..MaxEntries entries
Doubles == {Arr(d) : d \in UNION {[1..n -> Scalars] : n \in 0..MaxEntries}}
Elements == Scalars \cup Doubles
Lists == {Arr(l) : l \in UNION {[1..n -> Elements] : n \in 0..MaxPairs}}
\* the bodies handed to a list decoder
ListInputs ==
    {Obj(k, v) : k \in {"tb1", "pfs2"}, v \in Lists \cup Scalars \cup {Null}}
    \cup {EmptyObj} \cup {Arr(<<>>), Str("a.com"), Null}
\* the bodies handed to the geo decoder
GeoInputs == Doubles \cup Scalars \cup {Null, EmptyObj}

\* raw[key] of a map[string]interface{}: nil when the key is absent
MapIndex(raw, key) ==
    IF raw.items # <<>> /\ raw.s = key THEN raw.items[1] ELSE Null

\* a float64 to int conversion that rounds down
int_Floor(n) == n \div 10

\* int(s) of a float64: the fraction is dropped (rounding toward zero)
int(n) == IF n >= 0 THEN n \div 10 ELSE -((-n) \div 10)

DecOk(target) == [status |-> "ok", err |-> "nil", target |-> target]
DecErr(err, old) == [status |-> "error", err |-> err, target |-> old]
\* index out of range: a run-time panic, nothing is returned
DecPanic(old) == [status |-> "panic", err |-> "index out of range", target |-> old]

malfErr == "malformed object"

\* the for loop of the list decoders from element i on; acc is the list
\* built so far, old the target before the call
RECURSIVE ListLoop(_, _, _, _, _)
ListLoop(decoder, elems, i, acc, old) ==
    IF i > Len(elems) THEN DecOk(acc)
    ELSE LET double == elems[i].items IN
        IF elems[i].t # "array" THEN DecErr(malfErr, old)
        ELSE IF Len(double) < 1 THEN DecPanic(old)
        ELSE IF double[1].t # "string"
        THEN DecErr(IF decoder = "RelatedDomainList"
                    THEN "Could not convert double[0] to string"
                    ELSE malfErr, old)
        ELSE IF Len(double) < 2 THEN DecPanic(old)
        ELSE IF double[2].t # "number"
        THEN DecErr(IF decoder = "RelatedDomainList"
                    THEN "Could not convert double[1] to int"
                    ELSE malfErr, old)
        ELSE ListLoop(decoder, elems, i + 1,
                      Append(acc, [Domain |-> double[1].s,
                                   Score |-> IF decoder = "RelatedDomainList"
                                             THEN int(double[2].n)
                                             ELSE double[2].n]),
                      old)

\* a list decoder that appends to the list the target already holds
ListUnmarshalJSON_InPlace(decoder, key, b, old) ==
    IF b.t # "object" THEN DecErr("json: cannot unmarshal", old)
    ELSE LET list == MapIndex(b, key) IN
        IF list.t # "array" THEN DecErr(malfErr, old)
        ELSE ListLoop(decoder, list.items, 1, old, old)

\* (r *CooccurrenceList / *RelatedDomainList) UnmarshalJSON(b)
ListUnmarshalJSON(decoder, key, b, old) ==
    IF b.t # "object" THEN DecErr("json: cannot unmarshal", old)
    ELSE LET list == MapIndex(b, key) IN
        IF list.t # "array" THEN DecErr(malfErr, old)
        ELSE ListLoop(decoder, list.items, 1, <<>>, old)

\* a geo decoder that takes the two entries whatever their types
GeoUnmarshalJSON_NoTypeCheck(b, old) ==
    LET gfList == b.items IN
    IF b.t # "array" THEN DecErr(malfErr, old)
    ELSE IF Len(gfList) < 2 THEN DecPanic(old)
    ELSE DecOk([CountryCode |-> gfList[1].s, VisitRatio |-> gfList[2].n])

\* (gf *GeoFeatures) UnmarshalJSON(b)
GeoUnmarshalJSON(b, old) ==
    LET gfList == b.items IN
    IF b.t # "array" THEN DecErr(malfErr, old)
    ELSE IF Len(gfList) < 1 THEN DecPanic(old)
    ELSE IF gfList[1].t # "string" THEN DecErr(malfErr, old)
    ELSE IF Len(gfList) < 2 THEN DecPanic(old)
    ELSE IF gfList[2].t # "number" THEN DecErr(malfErr, old)
    ELSE DecOk([CountryCode |-> gfList[1].s, VisitRatio |-> gfList[2].n])

\* what the target holds before the call
OldList == <<[Domain |-> "old.com", Score |-> 1]>>
OldGeo == [CountryCode |-> "??", VisitRatio |-> 0]

DecCall(decoder, b) ==
    /\ decIn' = [decoder |-> decoder, input |-> b]
    /\ UNCHANGED <<batchVars, reqVars, opVars, pbVars, hashVars>>

CooccurrenceList_UnmarshalJSON ==
    /\ decIn.decoder = "none"
    /\ \E b \in ListInputs :
        /\ DecCall("CooccurrenceList", b)
        /\ decOut' = ListUnmarshalJSON("CooccurrenceList", "pfs2", b, OldList)

RelatedDomainList_UnmarshalJSON ==
    /\ decIn.decoder = "none"
    /\ \E b \in ListInputs :
        /\ DecCall("RelatedDomainList", b)
        /\ decOut' = ListUnmarshalJSON("RelatedDomainList", "tb1", b, OldList)

GeoFeatures_UnmarshalJSON ==
    /\ decIn.decoder = "none"
    /\ \E b \in GeoInputs :
        /\ DecCall("GeoFeatures", b)
        /\ decOut' = GeoUnmarshalJSON(b, OldGeo)

DecNext ==
    \/ CooccurrenceList_UnmarshalJSON
    \/ RelatedDomainList_UnmarshalJSON
    \/ GeoFeatures_UnmarshalJSON

DecSpec == Init /\ [][DecNext]_vars

(***************************************************************************)
(* SipHash and GetInfected of the SGraph client.  The client owns one      *)
(* hasher, made by siphash.New(key) at construction; its state is a        *)
(* function of the key and of the bytes written since the last Reset, so   *)
(* the model keeps those bytes.  Sum64 is a keyed 16-bit fold of them (the *)
(* real digest has 64 bits), FormatUint turns the sum into hex digits.     *)
(***************************************************************************)
MaxCalls == 3       \* SipHash / GetInfected calls of one behaviour

siphashKey == "Umbrella/OpenDNS"

\* a Reset that leaves the written bytes in the hasher
Reset_Keep(h) == h

\* hash.Hash.Reset, Write
Reset(h) == <<>>
Write(h, b) == h \o b

\* hash.Hash64.Sum64: the digest of the bytes written
RECURSIVE Fold(_, _)
Fold(acc, bytes) ==
    IF bytes = <<>> THEN acc
    ELSE Fold((acc * 31 + Head(bytes) + 1) % 65536, Tail(bytes))
Sum64(h) == Fold(IF siphashKey = "" THEN 0 ELSE Len(siphashKey), h)

\* strconv.FormatUint(sum, 16): the hex digits, most significant first,
\* without leading zeros
HexDigits == <<"0", "1", "2", "3", "4", "5", "6", "7",
               "8", "9", "a", "b", "c", "d", "e", "f">>
RECURSIVE FormatUint(_, _)
FormatUint(sum, base) ==
    IF sum < base THEN <<HexDigits[sum + 1]>>
    ELSE Append(FormatUint(sum \div base, base), HexDigits[(sum % base) + 1])

\* json.Marshal of a list of strings: [ item , item ]
RECURSIVE Marshal(_)
Marshal(list) ==
    IF list = <<>> THEN <<91, 93>>
    ELSE IF Len(list) = 1 THEN <<91, list[1], 93>>
    ELSE <<91, list[1], 44>> \o Tail(Marshal(Tail(list)))

\* the byte slices handed to SipHash and the lists handed to GetInfected
\* (a URL is one byte)
ByteSlices == {<<>>, <<1>>, <<2>>, <<1, 2>>}
UrlLists == {<<1>>, <<1, 2>>, <<2, 1>>}

\* the goroutines of the program that use the client
Goroutines == {"g1", "g2"}

\* calls begun so far
Begun == Len(sipLog) + Cardinality({h \in Goroutines : sipc[h] # "idle"})

\* SipHash(b) begins in goroutine g (called by the program, or by
\* GetInfected with the marshalled list): sg.sipHasher.Reset()
SipHashReset(g, fn, b) ==
    /\ sipc[g] = "idle"
    /\ Begun < MaxCalls
    /\ sipIn' = [sipIn EXCEPT ![g] = [fn |-> fn, b |-> b]]
    /\ sipHasher' = Reset(sipHasher)
    /\ sipc' = [sipc EXCEPT ![g] = "reset"]
    /\ UNCHANGED sipLog
    /\ UNCHANGED <<batchVars, reqVars, opVars, pbVars, decVars>>

\* sg.sipHasher.Write(b)
SipHashWrite(g) ==
    /\ sipc[g] = "reset"
    /\ sipHasher' = Write(sipHasher, sipIn[g].b)
    /\ sipc' = [sipc EXCEPT ![g] = "written"]
    /\ UNCHANGED <<sipIn, sipLog>>
    /\ UNCHANGED <<batchVars, reqVars, opVars, pbVars, decVars>>

\* sum := sg.sipHasher.Sum64(); return strconv.FormatUint(sum, 16); in
\* GetInfected the hash is put into the URI of the POST
SipHashSum(g) ==
    /\ sipc[g] = "written"
    /\ LET hash == FormatUint(Sum64(sipHasher), 16) IN
        sipLog' = Append(sipLog,
                    [fn |-> sipIn[g].fn, b |-> sipIn[g].b, hash |-> hash,
                     uri |-> IF sipIn[g].fn = "GetInfected"
                             THEN Sprintf(urls.infected, hash)
                             ELSE "none"])
    /\ sipc' = [sipc EXCEPT ![g] = "idle"]
    /\ UNCHANGED <<sipHasher, sipIn>>
    /\ UNCHANGED <<batchVars, reqVars, opVars, pbVars, decVars>>

\* one goroutine makes the calls, one after the other
SipHash == \E b \in ByteSlices : SipHashReset("g1", "SipHash", b)
GetInfected ==
    \E list \in UrlLists : SipHashReset("g1", "GetInfected", Marshal(list))

HashNext ==
    \/ SipHash
    \/ GetInfected
    \/ SipHashWrite("g1")
    \/ SipHashSum("g1")

HashSpec == Init /\ [][HashNext]_vars

\* two goroutines share the client: the hasher has no lock, the steps of
\* their calls fall in any order
ConcHashNext ==
    \/ \E g \in Goroutines, b \in ByteSlices : SipHashReset(g, "SipHash", b)
    \/ \E g \in Goroutines, list \in UrlLists :
          SipHashReset(g, "GetInfected", Marshal(list))
    \/ \E g \in Goroutines : SipHashWrite(g)
    \/ \E g \in Goroutines : SipHashSum(g)

ConcHashSpec == Init /\ [][ConcHashNext]_vars

(***************************************************************************)
(* Observations used by the properties.                                    *)
(***************************************************************************)
\* number of worker goroutines at the given point of doPGetParse
CountPc(pc) ==
    BagCardinality([w \in {x \in DOMAIN workers : x.pc = pc} |-> workers[w]])

\* number of GetParse calls in progress
InFlight == CountPc("GetParse")

Uris == {subUris[i] : i \in 1..Len(subUris)}
Index(u) == CHOOSE i \in 1..Len(subUris) : subUris[i] = u

\* number of values of URI u sent on outChan so far
Delivered(u) == Cardinality({k \in 1..Len(sent) : sent[k].of = u})

\* some value of a later input item was sent before one of an earlier item
OutOfOrder ==
    \E a, b \in 1..Len(sent) : a < b /\ Index(sent[a].of) > Index(sent[b].of)

(***************************************************************************)
(* Properties of the batch engine (specifications Spec and FairSpec).      *)
(***************************************************************************)

\* C1: once a batch is launched (any N, any pool size), the output channel
\* is eventually closed and the consumer's range loop over it ends.
C1_OutputEventuallyClosed ==
    (batch = "running") ~> (outClosed /\ consumer = "finished")

\* C1 witness: a batch with fewer workers than items (P >= 1, P < N) has
\* closed its output and the consumer has left its loop.
C1_Witness ==
    /\ outClosed /\ consumer = "finished"
    /\ limitAtLaunch >= 1 /\ limitAtLaunch < Len(subUris)

\* C2 (as claimed): when the output channel is closed, every URI whose
\* GetParse returned without error has exactly one value on the output, and
\* the number of values delivered is the number of such URIs.
C2_SuccessesDelivered ==
    outClosed =>
        /\ \A u \in Uris : net[u] = "ok" => Delivered(u) = 1
        /\ Len(sent) = Cardinality({u \in Uris : net[u] = "ok"})

\* C3 (as claimed): no value of a URI whose GetParse returned an error is
\* ever sent on the output channel.
C3_ErroredItemsDiscarded ==
    \A k \in 1..Len(sent) : net[sent[k].of] = "ok"

C5_InFlightAtMostPool == InFlight <= limitAtLaunch

\* C5 witness: as many GetParse calls in progress as the pool has workers,
\* with more than one worker.
C5_Witness == limitAtLaunch >= 2 /\ InFlight = limitAtLaunch

C7_OutOfOrderNeedsConcurrency == OutOfOrder => limitAtLaunch > 1

\* C7 witness: with two workers the consumer has received the value of the
\* second item before the value of the first.
C7_Witness ==
    /\ limitAtLaunch = 2
    /\ Len(received) = 2
    /\ Index(received[1].of) = 2 /\ Index(received[2].of) = 1

(***************************************************************************)
(* Properties of Request (specification ReqSpec).                          *)
(***************************************************************************)
AllTransportErrors == \A k \in 1..Len(attempts) : attempts[k].err # NoErr

\* C8: client.Do is never called a 6th time; when every attempt ended in a
\* transport error, Request returns only after the 5th call, with a nil
\* response and an error that carries the error of the 5th attempt.
C8_FiveAttemptsThenError ==
    /\ Len(attempts) <= maxTries
    /\ (rpc = "loop") => Len(attempts) < maxTries
    /\ (rpc = "returned" /\ AllTransportErrors) =>
        /\ Len(attempts) = maxTries
        /\ ret.resp = NilResponse
        /\ ret.err # NoErr
        /\ ret.err.wraps = attempts[maxTries].err.msg

\* C8 witness: Request has returned after five transport errors, the last
\* one different from the one before.
C8_Witness ==
    /\ rpc = "returned" /\ AllTransportErrors
    /\ Len(attempts) = maxTries
    /\ attempts[maxTries].err # attempts[maxTries - 1].err

\* the first attempt that returned a response with a non-nil body
HasBody(r) == r.err = NoErr /\ r.resp.Body # "nil"
FirstWithBody(j) ==
    /\ j \in 1..Len(attempts)
    /\ HasBody(attempts[j])
    /\ \A k \in 1..(j - 1) : ~HasBody(attempts[k])

\* C9 (as claimed): as soon as an attempt returns a response with a non-nil
\* body, Request returns that response with a nil error and makes no
\* further attempt.
C9_Original_BodyMeansSuccess ==
    \A j \in 1..maxTries : FirstWithBody(j) =>
        /\ rpc = "returned"
        /\ Len(attempts) = j
        /\ ret = [resp |-> attempts[j].resp, err |-> NoErr]

\* an attempt the client accepts: no error, a non-nil body and, in the typed
\* client, a status below 300
Accepted(v, r) == HasBody(r) /\ (v = "typed" => r.resp.StatusCode < 300)
FirstAccepted(j) ==
    /\ j \in 1..Len(attempts)
    /\ Accepted(variant, attempts[j])
    /\ \A k \in 1..(j - 1) : ~Accepted(variant, attempts[k])

\* C9 (amended): if the first k attempts fail (0 <= k <= 4) and attempt k+1
\* returns a response with a non-nil body and, in the typed client, a status
\* below 300, Request returns that response with a nil error after exactly
\* k+1 calls of client.Do.
C9_AcceptedAttemptReturned ==
    \A j \in 1..maxTries : FirstAccepted(j) =>
        /\ rpc = "returned"
        /\ Len(attempts) = j
        /\ ret = [resp |-> attempts[j].resp, err |-> NoErr]

\* C9 witness: the typed client's Request has returned the response of the
\* 5th attempt after four transport errors.
C9_Witness ==
    /\ variant = "typed"
    /\ rpc = "returned"
    /\ Len(attempts) = maxTries
    /\ \A k \in 1..(maxTries - 1) : attempts[k].err # NoErr
    /\ Accepted(variant, attempts[maxTries])
    /\ ret.err = NoErr

\* C10 (as claimed): Request never returns a nil error together with a
\* response whose body is nil.
C10_NoNilBodyWithNilError ==
    (rpc = "returned" /\ ret.err = NoErr) => ret.resp.Body # "nil"

\* C19 (as claimed): while verbose is off, nothing is written to any logger.
C19_SilentWhenNotVerbose == ~verbose => logOut = <<>>

(***************************************************************************)
(* Properties of the pool size (specification Spec).                       *)
(***************************************************************************)

\* C20: a batch launched before any SetMaxGoroutines call has exactly 10
\* worker goroutines; a batch launched after SetMaxGoroutines(n) has exactly
\* n worker goroutines, whatever the number of items.
C20_PoolSizeIsTheLimit ==
    batch = "running" =>
        BagCardinality(workers) =
            (IF lastSet = -1 THEN DefaultMaxGoroutines ELSE lastSet)

\* C20 witness: a batch of one item runs with the two workers that
\* SetMaxGoroutines(2) asked for.
C20_Witness ==
    /\ batch = "running"
    /\ lastSet = 2
    /\ Len(subUris) = 1
    /\ BagCardinality(workers) = 2

\* C20 witness of the default: a batch launched with no SetMaxGoroutines
\* call runs with 10 workers.
C20_DefaultReached ==
    batch = "running" /\ lastSet = -1 /\ BagCardinality(workers) = 10

(***************************************************************************)
(* Properties of the single-item operations (specification OpSpec).        *)
(***************************************************************************)
IsRRHistory == call.fn \in {"IpRRHistory", "DomainRRHistory", "RRHistory"}
IsCategorization == call.fn \in {"Categorization", "Categorizations"}
SupportedTypes == {"A", "NS", "MX", "TXT", "CNAME"}

\* C11: an RR history call with a query type outside {A, NS, MX, TXT,
\* CNAME} returns a nil result and an error and client.Do is never called;
\* with a type inside the set a GET request is built, and the call does not
\* return before client.Do was called.
C11_UnsupportedTypeNoRequest ==
    IsRRHistory =>
        IF call.qType \notin SupportedTypes
        THEN /\ opc = "done"
             /\ opRet.val = "nil" /\ opRet.err = "unsupported query type"
             /\ rpc = "idle" /\ Len(attempts) = 0
             /\ req.method = "none"
        ELSE /\ req.method = "GET"
             /\ opc = "done" => Len(attempts) >= 1

\* C11 witness: DomainRRHistory with the type AFSDB has returned.
C11_Witness ==
    /\ call.fn = "DomainRRHistory" /\ call.qType = "AFSDB"
    /\ opc = "done"

\* C11 witness of the other side: an RR history call with the type CNAME
\* has returned a value after a retried request.
C11_SupportedReached ==
    /\ IsRRHistory /\ call.qType = "CNAME"
    /\ opc = "done" /\ opRet.val = "value" /\ Len(attempts) >= 2

HasShowLabels(uri) ==
    \E k \in 1..Len(uri.rawQuery) :
        uri.rawQuery[k] = [key |-> "showLabels", value |-> "true"]

\* C18 (as claimed): the URI of every categorization request, GET or POST,
\* carries showLabels=true exactly when the labels argument is true.
C18_ShowLabelsIffLabels ==
    (IsCategorization /\ req.method # "none") =>
        (HasShowLabels(req.uri) <=> call.labels)

(***************************************************************************)
(* Properties of parseBody (specification PbSpec).                         *)
(***************************************************************************)
\* C12: parseBody closes the response stream exactly once on every path
\* (decode succeeded, decode failed, unsupported target, failure while the
\* rest is read): it is closed once when parseBody has returned, and not
\* before.
C12_ClosedExactlyOnce ==
    /\ pbc = "returned" => stream.closes = 1
    /\ pbc \in {"decoding", "failed", "returning"} => stream.closes = 0

\* C12 witness: parseBody has returned after the read of the remaining
\* bytes failed.
C12_Witness ==
    /\ pbc = "returned" /\ pb.client = "typed"
    /\ pbErr = "syntax error" /\ stream.failAt # -1
    /\ pbRet = PlainError("syntax error")
    /\ stream.closes = 1

\* C12 witness: the other three paths have returned as well.
C12_SuccessReached == pbc = "returned" /\ pbErr = "nil" /\ stream.closes = 1
C12_UnsupportedReached ==
    pbc = "returned" /\ ~pb.supported /\ pbRet.kind = "JSONDecodeError"
    /\ stream.closes = 1
C12_DecodeFailureReached ==
    pbc = "returned" /\ pbErr = "syntax error" /\ pbRet.kind = "JSONDecodeError"
    /\ stream.closes = 1

\* C13 (as claimed): when the decode fails with a parse error on a stream
\* that can be read to its end, the typed parseBody returns a
\* JSONDecodeError whose Err is the parse error and whose Body is the
\* complete raw body, the bytes the decoder had consumed included.
C13_BodyIsCompleteRawBody ==
    (/\ pbc = "returned" /\ pb.client = "typed" /\ pb.supported
     /\ pbErr \in {"syntax error", "unmarshal type error"}
     /\ stream.failAt = -1)
    => /\ pbRet.kind = "JSONDecodeError"
       /\ pbRet.Err = pbErr
       /\ pbRet.Body = stream.data

(***************************************************************************)
(* Properties of the positional decoders (specification DecSpec).          *)
(***************************************************************************)
IsListDecoder == decIn.decoder \in {"CooccurrenceList", "RelatedDomainList"}
IsGeoDecoder == decIn.decoder = "GeoFeatures"
KeyOfDecoder == IF decIn.decoder = "RelatedDomainList" THEN "tb1" ELSE "pfs2"

\* the input is an object that holds the decoder's key
HasKey ==
    /\ decIn.input.t = "object"
    /\ decIn.input.items # <<>>
    /\ decIn.input.s = KeyOfDecoder
\* the value under the key (read only where HasKey holds)
UnderKey == decIn.input.items[1]
HasList == HasKey /\ UnderKey.t = "array"
TheList == UnderKey.items

IsStringNumberPair(e) ==
    /\ e.t = "array" /\ Len(e.items) = 2
    /\ e.items[1].t = "string" /\ e.items[2].t = "number"

\* a number in tenths without its fraction: 25 (2.5) is 2, -15 (-1.5) is -1
TowardZero(n) ==
    CHOOSE k \in -10..10 :
        /\ k * 10 <= n + 9 /\ k * 10 >= n - 9
        /\ (n >= 0 => k * 10 <= n) /\ (n <= 0 => k * 10 >= n)

\* the errors the decoders return for a value of the wrong shape
MalformedResponse ==
    {"malformed object", "Could not convert double[0] to string",
     "Could not convert double[1] to int"}

Rejected(old) ==
    /\ decOut.status = "error"
    /\ decOut.err \in MalformedResponse
    /\ decOut.target = old

\* C14: for an input {key: [[string, number], ...]} a list decoder returns
\* one record per pair, in the order of the input and as many as the input
\* has, with Domain = element 0 and Score = element 1 (without its fraction
\* for RelatedDomainList).
C14_OneRecordPerPair ==
    (/\ IsListDecoder /\ HasList
     /\ \A k \in 1..Len(TheList) : IsStringNumberPair(TheList[k]))
    => /\ decOut.status = "ok"
       /\ Len(decOut.target) = Len(TheList)
       /\ \A k \in 1..Len(TheList) :
            /\ decOut.target[k].Domain = TheList[k].items[1].s
            /\ decOut.target[k].Score =
                    IF decIn.decoder = "RelatedDomainList"
                    THEN TowardZero(TheList[k].items[2].n)
                    ELSE TheList[k].items[2].n

\* C14 witness: {"tb1": [["a.com", 2.5], ["a.com", -1.5]]} was decoded into
\* the scores 2 and -1.
C14_Witness ==
    /\ decIn.decoder = "RelatedDomainList"
    /\ HasList
    /\ TheList = <<Arr(<<Str("a.com"), Num(25)>>), Arr(<<Str("a.com"), Num(-15)>>)>>
    /\ decOut.status = "ok"
    /\ decOut.target = <<[Domain |-> "a.com", Score |-> 2],
                         [Domain |-> "a.com", Score |-> -1]>>

\* C15 (as claimed): an element of the list (or the geo array) with 0, 1 or
\* more than 2 entries is rejected with a MalformedResponse error: it is
\* neither accepted nor does the decoder crash.
C15_ExactlyTwoEntries ==
    /\ (/\ IsListDecoder /\ HasList
        /\ \E k \in 1..Len(TheList) :
                TheList[k].t = "array" /\ Len(TheList[k].items) # 2)
       => Rejected(OldList)
    /\ (/\ IsGeoDecoder
        /\ decIn.input.t = "array" /\ Len(decIn.input.items) # 2)
       => Rejected(OldGeo)

\* C16 (as claimed): a list decoder fails with a MalformedResponse error and
\* leaves its target alone when the key is absent, when its value is not an
\* array, and when some element is not an array, or has an element 0 that is
\* not a string or an element 1 that is not a number.
C16_ListRejected ==
    (/\ IsListDecoder
     /\ decIn.input.t = "object"
     /\ \/ ~HasKey
        \/ ~HasList
        \/ \E k \in 1..Len(TheList) :
            \/ TheList[k].t # "array"
            \/ /\ Len(TheList[k].items) >= 1
               /\ TheList[k].items[1].t # "string"
            \/ /\ Len(TheList[k].items) >= 2
               /\ TheList[k].items[2].t # "number")
    => Rejected(OldList)

\* C17: the geo decoder turns [string, number] into the record with
\* CountryCode = element 0 and VisitRatio = element 1, and fails with a
\* MalformedResponse error, leaving its target alone, when the array has an
\* element 0 that is not a string or an element 1 that is not a number.
C17_GeoPair ==
    IsGeoDecoder =>
        /\ IsStringNumberPair(decIn.input)
            => /\ decOut.status = "ok"
               /\ decOut.target = [CountryCode |-> decIn.input.items[1].s,
                                   VisitRatio |-> decIn.input.items[2].n]
        /\ (/\ decIn.input.t = "array"
            /\ \/ /\ Len(decIn.input.items) >= 1
                  /\ decIn.input.items[1].t # "string"
               \/ /\ Len(decIn.input.items) >= 2
                  /\ decIn.input.items[2].t # "number")
            => Rejected(OldGeo)

\* C17 witness: the swapped array [2.5, "a.com"] was rejected.
C17_Witness ==
    /\ IsGeoDecoder
    /\ decIn.input = Arr(<<Num(25), Str("a.com")>>)
    /\ decOut.status = "error" /\ decOut.err = "malformed object"

\* C17 witness of the other side: ["a.com", 2.5] was decoded.
C17_DecodedReached ==
    /\ IsGeoDecoder
    /\ decIn.input = Arr(<<Str("a.com"), Num(25)>>)
    /\ decOut = [status |-> "ok", err |-> "nil",
                 target |-> [CountryCode |-> "a.com", VisitRatio |-> 25]]

\* C28 (as claimed): RRHistory with a supported query type sends its request
\* to the IP template exactly when the query is an IPv4 address, and to the
\* domain template for every other query.
C28_IpTemplateIffIPv4 ==
    (call.fn = "RRHistory" /\ req.method # "none") =>
        /\ req.method = "GET"
        /\ req.uri.path.args = <<call.qType, call.query.text>>
        /\ IF call.query.quad = "whole"
           THEN req.uri.path.template = "/dnsdb/ip/%s/%s.json"
           ELSE req.uri.path.template = "/dnsdb/name/%s/%s.json"

IsTypedCategorization == call.client = "typed" /\ call.fn = "Categorization"
\* Request obtained no response with a body from the transport
NoBodyObtained == ret.err # NoErr \/ ret.resp.Body = "nil"

\* C29 (as claimed): the typed Categorization returns a record only when the
\* decoded response holds the entry of the domain; when the entry is
\* missing, or the transport or the decoding failed, it returns a nil record
\* and a non-nil error.
C29_RecordOnlyWithEntry ==
    (IsTypedCategorization /\ opc = "done") =>
        /\ opRet.val = "value" =>
            opRet.parsed = "decoded" /\ opRet.err = "nil"
        /\ (NoBodyObtained \/ opRet.parsed \in {"no entry", "decode error"}) =>
            opRet.val = "nil" /\ opRet.err # "nil"

\* C30: the generic Categorization issues a GET for a string and a POST for
\* a list of strings; for an argument of another type it returns nil and an
\* error, and client.Do is never called.
C30_GetPostOrError ==
    (call.client = "generic" /\ call.fn = "Categorization") =>
        CASE call.kind = "string" ->
                req.method = "GET" /\ (opc = "done" => Len(attempts) >= 1)
          [] call.kind = "list" ->
                /\ req.method = "POST" /\ req.body = call.domains
                /\ opc = "done" => Len(attempts) >= 1
          [] OTHER ->
                /\ opc = "done" /\ req.method = "none"
                /\ opRet.val = "nil" /\ opRet.err # "nil"
                /\ rpc = "idle" /\ Len(attempts) = 0

\* C30 witness: the call with an argument that is neither a string nor a
\* list has returned.
C30_Witness ==
    /\ call.client = "generic" /\ call.fn = "Categorization"
    /\ call.kind = "other" /\ opc = "done"
    /\ opRet.err = "domains must be either a string, or a list of strings"

\* C30 witness of the POST: the call with a list has returned a value.
C30_PostReached ==
    /\ call.client = "generic" /\ call.fn = "Categorization"
    /\ call.kind = "list" /\ opc = "done" /\ opRet.val = "value"
    /\ req.method = "POST"

(***************************************************************************)
(* Further properties of Request (specification ReqSpec).                  *)
(***************************************************************************)
\* a response that arrived without transport error, with a status >= 300
BadStatus(r) == r.err = NoErr /\ r.resp.StatusCode >= 300

\* C25: in the typed client a response with status >= 300 is a failed
\* attempt: unless it was the 5th it is followed by another attempt, it is
\* never what Request returns with a nil error, and after 5 such responses
\* in a row Request returns a nil response and an error.
C25_BadStatusIsFailure ==
    variant = "typed" =>
        /\ \A k \in 1..Len(attempts) :
            (BadStatus(attempts[k]) /\ k < maxTries) =>
                (Len(attempts) > k \/ rpc = "loop")
        /\ (rpc = "returned" /\ ret.err = NoErr) =>
                (~ret.resp.isNil /\ ret.resp.StatusCode < 300)
        /\ (/\ Len(attempts) = maxTries
            /\ \A k \in 1..maxTries : BadStatus(attempts[k]))
           => /\ rpc = "returned"
              /\ ret.resp = NilResponse
              /\ ret.err # NoErr

\* C25 witness: the typed Request has returned after five responses with
\* status 404, each with a body.
C25_Witness ==
    /\ variant = "typed" /\ rpc = "returned"
    /\ Len(attempts) = maxTries
    /\ \A k \in 1..maxTries :
            BadStatus(attempts[k]) /\ attempts[k].resp.Body = "stream"
    /\ ret.resp = NilResponse /\ ret.err # NoErr

\* C23: every attempt that Request of a bearer-token client hands to the
\* HTTP client, the first one and every retry, carries the header
\* Authorization: Bearer <key> with the key of the client.
C23_EveryAttemptAuthorized ==
    /\ Len(wire) = Len(attempts)
    /\ variant \in {"typed", "generic"} =>
        \A k \in 1..Len(wire) :
            \A h \in wire[k].header :
                h.name = "Authorization" => h.value = <<"Bearer", invKey>>
    /\ variant \in {"typed", "generic"} =>
        \A k \in 1..Len(wire) :
            \E h \in wire[k].header : h.name = "Authorization"

\* C23 witness: the generic client with the key "key-2" has made five
\* attempts, the last of them authorized.
C23_Witness ==
    /\ variant = "generic" /\ invKey = "key-2"
    /\ Len(wire) = maxTries
    /\ Bearer("key-2") \in wire[maxTries].header

(***************************************************************************)
(* Properties of the retried request (specification OpSpec).               *)
(***************************************************************************)
\* C26 (as claimed): every attempt of Request transmits the same request as
\* the first: method, URI, header and, for a POST, the full JSON array.
C26_RetrySendsSameRequest ==
    \A k \in 1..Len(wire) :
        /\ wire[k] = wire[1]
        /\ wire[k].body = req.body

(***************************************************************************)
(* Properties of the limit as a package variable (specifications LateSpec  *)
(* and PkgSpec) and of the delivered records (specification Spec).         *)
(***************************************************************************)
\* C21 (as claimed): the pool of a batch is the limit read at its launch: a
\* SetMaxGoroutines call made while the batch runs changes neither the
\* number of its workers nor the number of completion signals its
\* supervisor takes before it closes the output channel.
C21_LaunchLimitGoverns ==
    batch = "running" =>
        /\ BagCardinality(workers) = limitAtLaunch
        /\ supervisor = "exited" => supI = limitAtLaunch
        /\ outClosed => supI = limitAtLaunch

\* C27: the limit is one value of the package: after SetMaxGoroutines(n) on
\* one client, a batch launched by any client, the same or another, has
\* exactly n workers.
C27_LimitSharedByClients ==
    (batch = "running" /\ setBy # "none") =>
        /\ limitAtLaunch = lastSet
        /\ BagCardinality(workers) = lastSet

\* C27 witness: sg1 set the limit to 2 and the batch sg2 launched runs with
\* 2 workers.
C27_Witness ==
    /\ batch = "running"
    /\ setBy = "sg1" /\ launchedBy = "sg2"
    /\ lastSet = 2 /\ BagCardinality(workers) = 2

\* C24: the records delivered by a finished batch with a pool of at least 1
\* are determined by the outcomes of the fetches alone: for every item, the
\* number of its records sent on the output channel and the record itself
\* are a function of that item's outcome, whatever the pool size and the
\* order of the workers' steps; only the order of the records varies.
C24_DeliveredDetermined ==
    (batch = "running" /\ limitAtLaunch >= 1 /\ outClosed) =>
        /\ \A u \in Uris :
            /\ net[u] # "pending"
            /\ Delivered(u) = IF net[u] = "ok" THEN 0 ELSE 1
        /\ \A k \in 1..Len(sent) :
            sent[k] = GetParse(sent[k].of, net[sent[k].of]).val

\* C24 witness: a batch of two items whose fetches ended in "reqerr" and
\* "parseerr" has finished with the record of the second item delivered
\* first.
C24_Witness ==
    /\ outClosed /\ Len(subUris) = 2 /\ limitAtLaunch = 2
    /\ net[subUris[1]] = "reqerr" /\ net[subUris[2]] = "parseerr"
    /\ Len(sent) = 2
    /\ sent[1].of = subUris[2] /\ sent[2].of = subUris[1]

\* C24 witness: the same outcomes, the same two records, in input order and
\* with a pool of 1.
C24_SameRecordsInOrder ==
    /\ outClosed /\ Len(subUris) = 2 /\ limitAtLaunch = 1
    /\ net[subUris[1]] = "reqerr" /\ net[subUris[2]] = "parseerr"
    /\ Len(sent) = 2
    /\ sent[1].of = subUris[1] /\ sent[2].of = subUris[2]

(***************************************************************************)
(* Properties of SipHash (specification HashSpec).                         *)
(***************************************************************************)
\* what SipHash(b) returns on a client whose hasher was never used
FreshHash(b) == FormatUint(Sum64(Write(<<>>, b)), 16)

\* C22: SipHash(b) depends only on b: whatever calls came before on the
\* client, a call returns the value a fresh client returns for its input,
\* and two GetInfected calls with the same list request the same URI.
C22_HashDependsOnInputOnly ==
    /\ \A k \in 1..Len(sipLog) : sipLog[k].hash = FreshHash(sipLog[k].b)
    /\ \A j, k \in 1..Len(sipLog) :
        (/\ sipLog[j].fn = "GetInfected" /\ sipLog[k].fn = "GetInfected"
         /\ sipLog[j].b = sipLog[k].b)
        => sipLog[j].uri = sipLog[k].uri

\* C22 witness: after SipHash of a non-empty slice, two GetInfected calls
\* with the same list have requested the same URI.
C22_Witness ==
    /\ Len(sipLog) = 3
    /\ sipLog[1].fn = "SipHash" /\ sipLog[1].b = <<1, 2>>
    /\ sipLog[2].fn = "GetInfected" /\ sipLog[3].fn = "GetInfected"
    /\ sipLog[2].b = Marshal(<<2, 1>>) /\ sipLog[3].b = sipLog[2].b
    /\ sipLog[2].uri = sipLog[3].uri
    /\ sipLog[2].hash # sipLog[1].hash

(***************************************************************************)
(* Properties of the batch whose output is not read (NoReaderSpec).        *)
(***************************************************************************)
\* no goroutine waits at a send: the feeder has room in inChan, a worker
\* about to send has room in the open outChan, a worker about to signal has
\* room in done
NoSendBlocks ==
    /\ (Running /\ fed < Len(subUris)) => Len(inChan) < ChanCap
    /\ CountPc("send") > 0 => (~outClosed /\ Len(outChan) < ChanCap)
    /\ CountPc("signal") > 0 => done < doneCap

\* the feeder, every worker and the supervisor have returned
BatchTerminated ==
    /\ fed = Len(subUris) /\ inClosed
    /\ CountPc("exited") = limitAtLaunch
    /\ supervisor = "exited"
    /\ outClosed

\* C31: no goroutine of a batch is ever held at a send, and once a batch is
\* launched the feeder, all P workers and the supervisor terminate and the
\* output is closed, whether or not the consumer reads the output.
C31_NoGoroutineBlocksForever ==
    /\ []NoSendBlocks
    /\ (batch = "running") ~> BatchTerminated

\* C31 witness: a batch of two items has terminated with both slots of the
\* output filled and nothing read from it.
C31_Witness ==
    /\ BatchTerminated
    /\ limitAtLaunch >= 1
    /\ Len(subUris) = 2 /\ Len(outChan) = 2
    /\ received = <<>> /\ consumer = "ranging"

(***************************************************************************)
(* The pool of one worker (specification Spec).                            *)
(***************************************************************************)
\* C32: with a pool of one worker the batch is sequential: an item is
\* passed to GetParse only after GetParse of every earlier item of the input
\* has returned and its value, if one is sent, is on the output; the values
\* on the output are in the input order of their items.
C32_PoolOfOneIsSequential ==
    limitAtLaunch = 1 =>
        /\ \A i, j \in 1..Len(subUris) :
            (i < j /\ fetches[subUris[j]] > 0) =>
                /\ fetches[subUris[i]] = 1
                /\ net[subUris[i]] # "pending"
                /\ SendsOutVal(GetParse(subUris[i], net[subUris[i]]).err)
                      => Delivered(subUris[i]) = 1
        /\ ~OutOfOrder

\* C32 witness: one worker has gone through a list of two items, a value of
\* each was sent, and the output is closed.
C32_Witness ==
    /\ limitAtLaunch = 1
    /\ Len(subUris) = 2 /\ Len(sent) = 2
    /\ Index(sent[1].of) = 1 /\ Index(sent[2].of) = 2
    /\ outClosed

(***************************************************************************)
(* The limit 0 (specification FairSpec).                                   *)
(***************************************************************************)
\* a batch launched while maxGoroutines was 0
ZeroLimitBatch == batch = "running" /\ limitAtLaunch = 0

\* no worker exists, no URI was passed to GetParse, nothing was sent
NothingProcessed ==
    /\ workers = EmptyBag
    /\ \A u \in Uris : fetches[u] = 0 /\ net[u] = "pending"
    /\ sent = <<>>
    /\ signals = 0

\* C33: a batch launched with the limit 0 starts no worker and performs no
\* fetch, whatever the item list; its output is closed with zero records
\* and the consumer's loop over it ends.
C33_ZeroLimitProcessesNothing ==
    /\ [](ZeroLimitBatch => NothingProcessed)
    /\ ZeroLimitBatch ~>
          (outClosed /\ consumer = "finished" /\ received = <<>>)

\* C33 witness: after SetMaxGoroutines(0) a batch of two items has ended:
\* both URIs were put on the work channel and never taken.
C33_Witness ==
    /\ ZeroLimitBatch /\ lastSet = 0
    /\ Len(subUris) = 2 /\ Len(inChan) = 2 /\ inClosed
    /\ outClosed /\ consumer = "finished" /\ received = <<>>

(***************************************************************************)
(* SipHash called from two goroutines (specification ConcHashSpec).        *)
(***************************************************************************)
\* C34 (as claimed): when two goroutines call SipHash or GetInfected on one
\* client at the same time, each call returns the hash of its own input
\* (and GetInfected requests the URI of that hash), however the reset, write
\* and sum steps interleave.
C34_EachCallHashesItsOwnInput ==
    \A k \in 1..Len(sipLog) :
        /\ sipLog[k].hash = FreshHash(sipLog[k].b)
        /\ sipLog[k].fn = "GetInfected" =>
              sipLog[k].uri = Sprintf(urls.infected, FreshHash(sipLog[k].b))

(***************************************************************************)
(* The decoders and their target (specification DecSpec).                  *)
(***************************************************************************)
\* what the target held before the call
OldTarget == IF IsGeoDecoder THEN OldGeo ELSE OldList

\* C35: a custom decoder that returns an error leaves its target as it was
\* before the call; one that succeeds replaces the target by the decoded
\* value: a list target holds one record per element of the input and none
\* of the records it held before, a geo target holds the two decoded fields.
C35_AllOrNothing ==
    /\ decOut.status = "error" => decOut.target = OldTarget
    /\ (decOut.status = "ok" /\ IsListDecoder) =>
        /\ HasList
        /\ Len(decOut.target) = Len(TheList)
        /\ \A k \in 1..Len(TheList) :
              decOut.target[k].Domain = TheList[k].items[1].s
    /\ (decOut.status = "ok" /\ IsGeoDecoder) =>
        /\ decOut.target.CountryCode = decIn.input.items[1].s
        /\ decOut.target.VisitRatio = decIn.input.items[2].n

\* C35 witness: a target that held one record was decoded into from a list
\* of two pairs and holds the two new records only.
C35_Witness ==
    /\ decIn.decoder = "CooccurrenceList"
    /\ decOut.status = "ok"
    /\ Len(TheList) = 2
    /\ Len(decOut.target) = 2
    /\ \A k \in 1..2 : decOut.target[k] \notin {OldList[1]}

\* an error was returned after the first pair had been decoded, and the
\* target still holds what it held
C35_LateErrorReached ==
    /\ IsListDecoder /\ HasList /\ Len(TheList) = 2
    /\ IsStringNumberPair(TheList[1])
    /\ decOut.status = "error"
    /\ decOut.target = OldList

\* the geo decoder failed and left its target
C35_GeoErrorReached ==
    /\ IsGeoDecoder
    /\ decOut.status = "error"
    /\ decOut.target = OldGeo

(***************************************************************************)
(* The response bodies of one operation (specification OpSpec).            *)
(***************************************************************************)
\* attempt k of the operation got a response with a body
ObtainedBody(k) == attempts[k].err = NoErr /\ attempts[k].resp.Body # "nil"

\* C36 (as claimed): when a single-item operation of the typed client has
\* returned, the body of every response it obtained from the HTTP client
\* has been closed exactly once, the bodies of the attempts rejected for a
\* status >= 300 included.
C36_EveryBodyClosedOnce ==
    (call.client = "typed" /\ opc = "done") =>
        \A k \in 1..Len(attempts) : ObtainedBody(k) => bodyCloses[k] = 1

\* no body is closed twice, and the body of the response that Request
\* returned is closed once when the operation has returned
C36_ReturnedBodyClosedOnce ==
    /\ \A k \in 1..Len(bodyCloses) : bodyCloses[k] <= 1
    /\ (opc = "done" /\ Len(attempts) > 0 /\ ObtainedBody(Len(attempts))
        /\ ~AttemptFailed(variant, attempts[Len(attempts)]))
       => bodyCloses[Len(attempts)] = 1

=============================================================================
